---- MODULE Spec2Model ----
(***************************************************************************)
(* A model of gopher-parse-sitemap: the streaming decode loop over an XML  *)
(* token stream (Parse / ParseIndex and their file and site wrappers), the *)
(* record types with their accessors, and the lazy date parser.            *)
(*                                                                         *)
(* Strings that the date parser inspects are sequences of one-character    *)
(* strings; every other string is an ordinary string.  A float32 priority  *)
(* is kept in tenths (0.5 is 5).  A nil error is Nil; a pointer is the     *)
(* empty sequence when nil and a one-element sequence otherwise.           *)
(***************************************************************************)
EXTENDS Integers, Sequences, FiniteSets, TLC

VARIABLES
    api,        \* the entry point that was called
    pc,         \* position of the call: start, loop, decode, consume, done
    stk,        \* the decoder's stack of open elements, outermost first
    budget,     \* start and text tokens the byte source can still produce
    afterStart, \* the last token read was a start element
    base,       \* depth of stk at the record-start element being decoded
    entry,      \* the record being built / handed to the consumer
    delivered,  \* what each consumer invocation observed, in order
    result,     \* the error returned by the entry point (Nil, or an error)
    src,        \* the byte source: kind, open, close counts
    doc,        \* history: the record-start elements read so far
    elem,       \* history: content of the top-level record element being read
    rec,        \* a record instance whose date accessor is exercised
    returns,    \* values returned by successive date accessor calls on rec
    parsed,     \* the latest direct parseDateTime call: its input and outcome
    parseCalls, \* parseDateTime calls made by the date accessor calls on rec
    calls,      \* concurrent calls of Parse / ParseIndex, each with its own state
    heap        \* the records those calls have allocated, by address

vars == <<api, pc, stk, budget, afterStart, base, entry, delivered, result,
          src, doc, elem, rec, returns, parsed, parseCalls, calls, heap>>

loopVars == <<api, pc, stk, budget, afterStart, base, entry, delivered,
              result, src, doc, elem>>

typeVars == <<rec, returns, parsed, parseCalls>>

concVars == <<calls, heap>>

\* An error value; Nil is the nil error.
Err(kind, code) == [err |-> kind, code |-> code]

Nil == Err("nil", 0)

NilPtr == <<>>

Ptr(x) == <<x>>

-----------------------------------------------------------------------------
(* Bounds of the model.                                                    *)

MaxTokens == 5      \* start and text tokens in one document
WrapperTokens == 2  \* the same, for a document read through a file or site wrapper
MaxDepth == 3       \* nesting depth of open elements
MaxCalls == 3       \* successive accessor calls on one record instance

-----------------------------------------------------------------------------
(* time.Parse for the three layouts parseDateTime uses.                    *)

DigitChars == {"0", "1", "2", "3", "4", "5", "6", "7", "8", "9"}

DigitVal(c) ==
    CASE c = "0" -> 0 [] c = "1" -> 1 [] c = "2" -> 2 [] c = "3" -> 3
      [] c = "4" -> 4 [] c = "5" -> 5 [] c = "6" -> 6 [] c = "7" -> 7
      [] c = "8" -> 8 [] c = "9" -> 9

\* s[i..j] are all digits
IsNum(s, i, j) == j <= Len(s) /\ \A k \in i..j : s[k] \in DigitChars

RECURSIVE NumVal(_, _, _)
NumVal(s, i, j) ==
    IF j < i THEN 0 ELSE NumVal(s, i, j - 1) * 10 + DigitVal(s[j])

IsLeap(y) == (y % 4 = 0) /\ ((y % 100 # 0) \/ (y % 400 = 0))

DaysIn(m, y) ==
    IF m = 2 THEN (IF IsLeap(y) THEN 29 ELSE 28)
    ELSE IF m \in {4, 6, 9, 11} THEN 30 ELSE 31

\* "2006-01-02" at s[1..10]
DateOK(s) ==
    /\ Len(s) >= 10
    /\ IsNum(s, 1, 4) /\ s[5] = "-" /\ IsNum(s, 6, 7) /\ s[8] = "-"
    /\ IsNum(s, 9, 10)
    /\ NumVal(s, 6, 7) \in 1..12
    /\ NumVal(s, 9, 10) \in 1..DaysIn(NumVal(s, 6, 7), NumVal(s, 1, 4))

\* "T15:04" at s[11..16]
HourMinOK(s) ==
    /\ Len(s) >= 16
    /\ s[11] = "T" /\ IsNum(s, 12, 13) /\ s[14] = ":" /\ IsNum(s, 15, 16)
    /\ NumVal(s, 12, 13) < 24 /\ NumVal(s, 15, 16) < 60

\* ":05" at s[17..19]
SecOK(s) == Len(s) >= 19 /\ s[17] = ":" /\ IsNum(s, 18, 19) /\ NumVal(s, 18, 19) < 60

\* "-07:00" at s[i..i+5], up to the end of s
NumZoneOK(s, i) ==
    /\ Len(s) = i + 5
    /\ s[i] \in {"+", "-"} /\ IsNum(s, i + 1, i + 2) /\ s[i + 3] = ":"
    /\ IsNum(s, i + 4, i + 5)

\* "Z07:00" at s[i..], up to the end of s: a literal Z or a numeric offset
ZoneOK(s, i) == (Len(s) = i /\ s[i] = "Z") \/ NumZoneOK(s, i)

\* the offset in minutes east of UTC
ZoneVal(s, i) ==
    IF s[i] = "Z" THEN 0
    ELSE (IF s[i] = "-" THEN -1 ELSE 1)
            * (NumVal(s, i + 1, i + 2) * 60 + NumVal(s, i + 4, i + 5))

Layouts == {"RFC3339", "MinuteZone", "Short"}

\* does time.Parse(layout, s) succeed
Matches(layout, s) ==
    CASE layout = "RFC3339" -> DateOK(s) /\ HourMinOK(s) /\ SecOK(s) /\ ZoneOK(s, 20)
      [] layout = "MinuteZone" -> DateOK(s) /\ HourMinOK(s) /\ NumZoneOK(s, 17)
      [] layout = "Short" -> DateOK(s) /\ Len(s) = 10

\* the time.Time a successful time.Parse(layout, s) returns
TimeOf(layout, s) ==
    [year |-> NumVal(s, 1, 4), month |-> NumVal(s, 6, 7), day |-> NumVal(s, 9, 10),
     hour |-> IF layout = "Short" THEN 0 ELSE NumVal(s, 12, 13),
     min |-> IF layout = "Short" THEN 0 ELSE NumVal(s, 15, 16),
     sec |-> IF layout = "RFC3339" THEN NumVal(s, 18, 19) ELSE 0,
     offset |-> CASE layout = "RFC3339" -> ZoneVal(s, 20)
                  [] layout = "MinuteZone" -> ZoneVal(s, 17)
                  [] layout = "Short" -> 0]

\* time.Parse: the error (Nil on success) and the time
TimeParse(layout, s) ==
    IF Matches(layout, s) THEN [err |-> Nil, t |-> Ptr(TimeOf(layout, s))]
    ELSE [err |-> Err("parseError", 0), t |-> NilPtr]

parseDateTimeTwoLayouts(value) ==
    IF value = <<>> THEN [t |-> NilPtr, tried |-> <<>>]
    ELSE
      LET r1 == TimeParse("RFC3339", value)
          r3 == TimeParse("Short", value)
      IN  IF r1.err = Nil THEN [t |-> r1.t, tried |-> <<"RFC3339">>]
          ELSE IF r3.err = Nil THEN [t |-> r3.t, tried |-> <<"RFC3339", "Short">>]
          ELSE [t |-> NilPtr, tried |-> <<"RFC3339", "Short">>]

\* parseDateTime: the *time.Time returned (NilPtr when absent) and the layouts
\* that were handed to time.Parse, in order
parseDateTime(value) ==
    IF value = <<>> THEN [t |-> NilPtr, tried |-> <<>>]
    ELSE
      LET r1 == TimeParse("RFC3339", value)
          r2 == TimeParse("MinuteZone", value)
          r3 == TimeParse("Short", value)
      IN  IF r1.err = Nil THEN [t |-> r1.t, tried |-> <<"RFC3339">>]
          ELSE IF r2.err = Nil
                 THEN [t |-> r2.t, tried |-> <<"RFC3339", "MinuteZone">>]
          ELSE IF r3.err = Nil
                 THEN [t |-> r3.t, tried |-> <<"RFC3339", "MinuteZone", "Short">>]
          ELSE [t |-> NilPtr, tried |-> <<"RFC3339", "MinuteZone", "Short">>]

-----------------------------------------------------------------------------
(* The record types and their accessors.                                   *)

Always == "always"

\* the zero value of News
NewNews ==
    [type |-> "News", Name |-> "", Language |-> "", PublicationDate |-> <<>>,
     ParsedPublicationDate |-> NilPtr, Title |-> "", Keywords |-> ""]

\* the zero value of Image
NewImage == [ImageLocation |-> "", ImageTitle |-> ""]

newSitemapEntryZero ==
    [type |-> "sitemapEntry", Location |-> "", LastModified |-> <<>>,
     ParsedLastModified |-> NilPtr, ChangeFrequency |-> "", Priority |-> 0,
     Images |-> <<>>, News |-> NilPtr]

newSitemapEntry ==
    [type |-> "sitemapEntry", Location |-> "", LastModified |-> <<>>,
     ParsedLastModified |-> NilPtr, ChangeFrequency |-> Always, Priority |-> 5,
     Images |-> <<>>, News |-> NilPtr]

\* a constructor that would hand out a record with a location already set
newSitemapIndexEntryPreset ==
    [type |-> "sitemapIndexEntry", Location |-> "a", LastModified |-> <<>>,
     ParsedLastModified |-> NilPtr]

newSitemapIndexEntry ==
    [type |-> "sitemapIndexEntry", Location |-> "", LastModified |-> <<>>,
     ParsedLastModified |-> NilPtr]

GetLocation(e) == e.Location

GetImages(e) == e.Images

GetChangeFrequency(e) == e.ChangeFrequency

GetPriority(e) == e.Priority

GetNews(e) == e.News

GetLastModifiedStale(e) ==
    IF e.ParsedLastModified = NilPtr /\ e.LastModified # <<>>
    THEN LET t == IF Matches("Short", e.LastModified)
                  THEN Ptr(TimeOf("Short", e.LastModified)) ELSE NilPtr
         IN  [ret |-> e.ParsedLastModified,
              self |-> [e EXCEPT !.ParsedLastModified = t], calls |-> 1]
    ELSE [ret |-> e.ParsedLastModified, self |-> e, calls |-> 0]

\* A date accessor mutates its receiver: ret is the value returned, self the
\* receiver afterwards, calls the number of parseDateTime calls it made.
GetLastModified(e) ==
    IF e.ParsedLastModified = NilPtr /\ e.LastModified # <<>>
    THEN LET t == parseDateTime(e.LastModified).t
         IN  [ret |-> t, self |-> [e EXCEPT !.ParsedLastModified = t], calls |-> 1]
    ELSE [ret |-> e.ParsedLastModified, self |-> e, calls |-> 0]

GetPublicationDate(n) ==
    IF n.ParsedPublicationDate = NilPtr /\ n.PublicationDate # <<>>
    THEN LET t == parseDateTime(n.PublicationDate).t
         IN  [ret |-> t, self |-> [n EXCEPT !.ParsedPublicationDate = t], calls |-> 1]
    ELSE [ret |-> n.ParsedPublicationDate, self |-> n, calls |-> 0]

IndexGetLastModified(e) ==
    IF e.ParsedLastModified = NilPtr /\ e.LastModified # <<>>
    THEN LET t == parseDateTime(e.LastModified).t
         IN  [ret |-> t, self |-> [e EXCEPT !.ParsedLastModified = t], calls |-> 1]
    ELSE [ret |-> e.ParsedLastModified, self |-> e, calls |-> 0]

-----------------------------------------------------------------------------
(* Date strings of the documents and of the direct calls.                  *)

Date_2015_05_07 == <<"2", "0", "1", "5", "-", "0", "5", "-", "0", "7">>
Date_2015_13_07 == <<"2", "0", "1", "5", "-", "1", "3", "-", "0", "7">>
Date_2015_02_30 == <<"2", "0", "1", "5", "-", "0", "2", "-", "3", "0">>
Date_NotADate == <<"n", "o", "t", "-", "a", "-", "d", "a", "t", "e">>

Clock_15_04_05 == <<"T", "1", "5", ":", "0", "4", ":", "0", "5">>
Clock_15_04 == <<"T", "1", "5", ":", "0", "4">>
Clock_25_04 == <<"T", "2", "5", ":", "0", "4">>

Zone_Z == <<"Z">>
Zone_Plus == <<"+", "0", "2", ":", "0", "0">>
Zone_Minus == <<"-", "0", "7", ":", "3", "0">>

DateParts == {<<>>, Date_2015_05_07, Date_2015_13_07, Date_2015_02_30, Date_NotADate}
ClockParts == {<<>>, Clock_15_04_05, Clock_15_04, Clock_25_04}
ZoneParts == {<<>>, Zone_Z, Zone_Plus, Zone_Minus}

DateInputs == {d \o c \o z : d \in DateParts, c \in ClockParts, z \in ZoneParts}

-----------------------------------------------------------------------------
(* The documents: element names and text values the byte source can hold.  *)

Tags == {"urlset", "url", "sitemap", "loc", "lastmod", "changefreq",
         "priority", "image", "news"}

RecordTags == {"url", "sitemap"}

DocDates == {Date_2015_05_07, Date_NotADate}

\* the text an element named tag can hold in the documents considered
TextsFor(tag) ==
    CASE tag \in {"lastmod", "publication_date"} -> DocDates
      [] tag = "priority" -> {25}
      [] tag = "changefreq" -> {"sometimes"}
      [] OTHER -> {"a", "b"}

Range(s) == {s[i] : i \in 1..Len(s)}

\* Elements that hold text.  The documents considered have, inside such an
\* element, only child elements named as a record or as a field.
Leaves == {"loc", "lastmod", "changefreq", "priority"}

LeafChildTags == {"url", "sitemap", "loc"}

\* the element names that can come next under the open elements s
TagsIn(s) == IF Range(s) \cap Leaves # {} THEN LeafChildTags ELSE Tags

Last(s) == s[Len(s)]

-----------------------------------------------------------------------------
(* Entry points.                                                           *)

APIs == {"Parse", "ParseIndex", "ParseFromFile", "ParseIndexFromFile",
         "ParseFromSite", "ParseIndexFromSite"}

EntryAPIs == {"Parse", "ParseFromFile", "ParseFromSite"}

IndexAPIs == {"ParseIndex", "ParseIndexFromFile", "ParseIndexFromSite"}

\* the handler the closure of Parse / ParseIndex calls for a start element
ParseHandlerOfIndex == "indexEntryParser"

ParseHandler == "entryParser"

\* a ParseIndex whose closure would call the handler of Parse
ParseIndexHandlerOfEntry == "entryParser"

ParseIndexHandler == "indexEntryParser"

\* what an entry point returns when the call it delegates to returns r:
\* Parse and ParseIndex return what parseLoop returns, a wrapper what
\* Parse or ParseIndex returns
ParseDropsResult(r) == Nil

Parse(r) == r

ParseIndexDropsResult(r) == Nil

ParseIndex(r) == r

ParseFromFile(r) == Parse(r)

ParseIndexFromFile(r) == ParseIndex(r)

ParseFromSite(r) == Parse(r)

ParseIndexFromSite(r) == ParseIndex(r)

Handler(a) == IF a \in EntryAPIs THEN ParseHandler ELSE ParseIndexHandler

\* a closure that would return nil whatever its handler returns
ClosureSwallows(r) == Nil

\* what the closure of Parse / ParseIndex returns to parseLoop when the
\* handler it calls returns r
ClosureReturn(r) == r

Returned(a, r) ==
    CASE a = "Parse" -> Parse(r)
      [] a = "ParseIndex" -> ParseIndex(r)
      [] a = "ParseFromFile" -> ParseFromFile(r)
      [] a = "ParseIndexFromFile" -> ParseIndexFromFile(r)
      [] a = "ParseFromSite" -> ParseFromSite(r)
      [] a = "ParseIndexFromSite" -> ParseIndexFromSite(r)

\* the record-start element a handler acts on, and the record it creates
HandlerTag(h) == IF h = "entryParser" THEN "url" ELSE "sitemap"

HandlerNew(h) == IF h = "entryParser" THEN newSitemapEntry ELSE newSitemapIndexEntry

RecordTag == HandlerTag(Handler(api))

NoEntry == [type |-> "none"]

-----------------------------------------------------------------------------
(* The record builders: what decoding one element's subtree writes into    *)
(* the record, by the element's path below the record-start element.       *)

SetLastImage(e, field, v) ==
    [e EXCEPT !.Images[Len(e.Images)][field] = v]

SetNews(e, field, v) == [e EXCEPT !.News[1][field] = v]

\* text v directly inside the element at path p
EntryField(e, p, v) ==
    CASE p = <<"loc">> -> [e EXCEPT !.Location = v]
      [] p = <<"lastmod">> -> [e EXCEPT !.LastModified = v]
      [] p = <<"changefreq">> -> [e EXCEPT !.ChangeFrequency = v]
      [] p = <<"priority">> -> [e EXCEPT !.Priority = v]
      [] p = <<"image", "loc">> -> SetLastImage(e, "ImageLocation", v)
      [] p = <<"image", "title">> -> SetLastImage(e, "ImageTitle", v)
      [] p = <<"news", "publication", "name">> -> SetNews(e, "Name", v)
      [] p = <<"news", "publication", "language">> -> SetNews(e, "Language", v)
      [] p = <<"news", "publication_date">> -> SetNews(e, "PublicationDate", v)
      [] p = <<"news", "title">> -> SetNews(e, "Title", v)
      [] p = <<"news", "keywords">> -> SetNews(e, "Keywords", v)
      [] OTHER -> e

IndexEntryFieldNoLastmod(e, p, v) ==
    CASE p = <<"loc">> -> [e EXCEPT !.Location = v]
      [] OTHER -> e

IndexEntryField(e, p, v) ==
    CASE p = <<"loc">> -> [e EXCEPT !.Location = v]
      [] p = <<"lastmod">> -> [e EXCEPT !.LastModified = v]
      [] OTHER -> e

\* the value of a field whose element holds no text
EmptyValue(p) ==
    IF p = <<"priority">> THEN 0
    ELSE IF Last(p) \in {"lastmod", "publication_date"} THEN <<>>
    ELSE ""

EntryChildOneImage(e, p) ==
    CASE p = <<"image">> -> [e EXCEPT !.Images = <<NewImage>>]
      [] p = <<"news">> ->
            [e EXCEPT !.News = IF @ = NilPtr THEN Ptr(NewNews) ELSE @]
      [] OTHER -> EntryField(e, p, EmptyValue(p))

\* the start of the element at path p
EntryChild(e, p) ==
    CASE p = <<"image">> -> [e EXCEPT !.Images = Append(@, NewImage)]
      [] p = <<"news">> ->
            [e EXCEPT !.News = IF @ = NilPtr THEN Ptr(NewNews) ELSE @]
      [] OTHER -> EntryField(e, p, EmptyValue(p))

IndexEntryChild(e, p) == IndexEntryField(e, p, EmptyValue(p))

\* entryParser / indexEntryParser, decoding into the record they created
BuildChild(h, e, p) ==
    IF h = "entryParser" THEN EntryChild(e, p) ELSE IndexEntryChild(e, p)

BuildText(h, e, p, v) ==
    IF h = "entryParser" THEN EntryField(e, p, v) ELSE IndexEntryField(e, p, v)

-----------------------------------------------------------------------------
(* History of the document read so far, kept apart from the parser: the    *)
(* record-start elements in document order, and of the outermost element  *)
(* named RecordTag that was opened last: its children that bear a known    *)
(* name, each with its text and the texts of its own loc children.         *)

NoDoc == [recs |-> <<>>, open |-> <<>>, failed |-> FALSE, ended |-> FALSE]

NoElem == [at |-> 0, kids |-> <<>>]

\* position in stk of the outermost open element named RecordTag, 0 if none
RecordAt(s) ==
    IF RecordTag \in Range(s)
    THEN CHOOSE i \in 1..Len(s) :
            s[i] = RecordTag /\ \A j \in 1..(i - 1) : s[j] # RecordTag
    ELSE 0

DocStart(t) ==
    IF t \in RecordTags
    THEN [doc EXCEPT
            !.recs = Append(@, [tag |-> t, inside |-> Range(stk) \cap RecordTags,
                                closed |-> FALSE]),
            !.open = Append(@, Len(doc.recs) + 1)]
    ELSE doc

DocEnd ==
    IF Last(stk) \in RecordTags
    THEN [doc EXCEPT !.recs[Last(doc.open)].closed = TRUE,
                     !.open = SubSeq(@, 1, Len(@) - 1)]
    ELSE doc

\* the children the history keeps: those a record type has a field for
Known == {"loc", "lastmod", "changefreq", "priority", "image", "news"}

ElemStart(t) ==
    LET r == RecordAt(stk)
        d == Len(stk) - r
    IN  IF r = 0
        THEN IF t = RecordTag
             THEN [at |-> Len(doc.recs) + 1, kids |-> <<>>]
             ELSE elem
        ELSE IF d = 0 /\ t \in Known
             THEN [elem EXCEPT !.kids =
                      Append(@, [tag |-> t, text |-> <<>>, locs |-> <<>>])]
        ELSE IF d = 1 /\ t = "loc" /\ Last(stk) \in Known
             THEN [elem EXCEPT !.kids[Len(elem.kids)].locs = Append(@, <<>>)]
        ELSE elem

ElemText(v) ==
    LET r == RecordAt(stk)
        d == Len(stk) - r
        k == Len(elem.kids)
    IN  IF r = 0 THEN elem
        ELSE IF d = 1 /\ Last(stk) \in Known
             THEN [elem EXCEPT !.kids[k].text = <<v>>]
        ELSE IF d = 2 /\ Last(stk) = "loc" /\ stk[Len(stk) - 1] \in Known
             THEN [elem EXCEPT !.kids[k].locs[Len(elem.kids[k].locs)] = <<v>>]
        ELSE elem

-----------------------------------------------------------------------------
(* The byte source and the convenience wrappers around it.                 *)

FileAPIs == {"ParseFromFile", "ParseIndexFromFile"}

SiteAPIs == {"ParseFromSite", "ParseIndexFromSite"}

Statuses == {200, 304, 400, 503}

\* kind: reader (handed in by the caller), file, body (the response body),
\* gzip (a gzip reader over the response body), none (nothing obtained yet);
\* bodies: response bodies received; the close counts of each object
NoSource ==
    [kind |-> "none", status |-> 0, bodies |-> 0, fileCloses |-> 0,
     bodyCloses |-> 0, gzipCloses |-> 0]

\* the deferred Close of the wrapper that was called; closing a gzip reader
\* does not close the reader underneath it
DeferredClose(a, s) ==
    IF a \in FileAPIs THEN [s EXCEPT !.fileCloses = @ + 1]
    ELSE IF a \in SiteAPIs
         THEN IF s.kind = "gzip" THEN [s EXCEPT !.gzipCloses = @ + 1]
              ELSE [s EXCEPT !.bodyCloses = @ + 1]
    ELSE s

\* get: what it returns for a response with status code and the gzip header
\* set or not, gzipOK telling whether gzip.NewReader accepts the body
get(code, gzipped, gzipOK) ==
    LET s == [src EXCEPT !.status = code, !.bodies = 1]
    IN  IF code >= 400
        THEN [err |-> Err("statusError", code), src |-> s]
        ELSE IF gzipped
             THEN IF gzipOK
                  THEN [err |-> Nil, src |-> [s EXCEPT !.kind = "gzip"]]
                  ELSE [err |-> Err("gzipError", 0), src |-> s]
        ELSE [err |-> Nil, src |-> [s EXCEPT !.kind = "body"]]

-----------------------------------------------------------------------------
(* The state after the call of an entry point.                             *)

InitTypesIdle ==
    /\ rec = NoEntry
    /\ returns = <<>>
    /\ parsed = [called |-> FALSE, value |-> <<>>, t |-> NilPtr, tried |-> <<>>]
    /\ parseCalls = 0
    /\ calls = <<>>
    /\ heap = <<>>

Init ==
    /\ api \in APIs
    /\ pc = IF api \in {"Parse", "ParseIndex"} THEN "loop" ELSE "start"
    /\ stk = <<>>
    /\ budget = IF api \in {"Parse", "ParseIndex"} THEN MaxTokens ELSE WrapperTokens
    /\ afterStart = FALSE
    /\ base = 0
    /\ entry = NoEntry
    /\ delivered = <<>>
    /\ result = Nil
    /\ src = IF api \in {"Parse", "ParseIndex"}
             THEN [NoSource EXCEPT !.kind = "reader"] ELSE NoSource
    /\ doc = NoDoc
    /\ elem = NoElem
    /\ InitTypesIdle

-----------------------------------------------------------------------------
(* Opening the byte source.                                                *)

\* a wrapper that would return an error of its own in place of err
FailWrapsError(err, s) ==
    /\ result' = Err("wrapped", 0)
    /\ src' = s
    /\ pc' = "done"
    /\ UNCHANGED <<api, stk, budget, afterStart, base, entry, delivered, doc, elem>>

\* the wrapper returns err without parsing
Fail(err, s) ==
    /\ result' = err
    /\ src' = s
    /\ pc' = "done"
    /\ UNCHANGED <<api, stk, budget, afterStart, base, entry, delivered, doc, elem>>

OpenFile(ok) ==
    /\ pc = "start"
    /\ api \in FileAPIs
    /\ IF ok
       THEN /\ src' = [src EXCEPT !.kind = "file"]
            /\ pc' = "loop"
            /\ UNCHANGED <<api, stk, budget, afterStart, base, entry, delivered,
                           result, doc, elem>>
       ELSE Fail(Err("openError", 0), src)
    /\ UNCHANGED <<typeVars, concVars>>

\* the request cannot be built or sent: no response
GetNoResponse ==
    /\ pc = "start"
    /\ api \in SiteAPIs
    /\ Fail(Err("requestError", 0), src)
    /\ UNCHANGED <<typeVars, concVars>>

GetResponse(code, gzipped, gzipOK) ==
    /\ pc = "start"
    /\ api \in SiteAPIs
    /\ LET r == get(code, gzipped, gzipOK)
       IN  IF r.err # Nil
           THEN Fail(r.err, r.src)
           ELSE /\ src' = r.src
                /\ pc' = "loop"
                /\ UNCHANGED <<api, stk, budget, afterStart, base, entry,
                               delivered, result, doc, elem>>
    /\ UNCHANGED <<typeVars, concVars>>

-----------------------------------------------------------------------------
(* The decoder: one Token call.  Each Read... is enabled when the byte     *)
(* source can hold that token next, and gives the decoder's next state     *)
(* and the history of the document.                                        *)

SyntaxError == Err("syntaxError", 0)

ReadStart(t) ==
    /\ budget > 0
    /\ Len(stk) < MaxDepth
    /\ t \in TagsIn(stk)
    /\ stk' = Append(stk, t)
    /\ budget' = budget - 1
    /\ afterStart' = TRUE
    /\ doc' = DocStart(t)
    /\ elem' = ElemStart(t)

ReadText(v) ==
    /\ budget > 0
    /\ afterStart
    /\ stk # <<>>
    /\ v \in TextsFor(Last(stk))
    /\ budget' = budget - 1
    /\ afterStart' = FALSE
    /\ doc' = doc
    /\ elem' = ElemText(v)
    /\ UNCHANGED stk

ReadEnd ==
    /\ stk # <<>>
    /\ stk' = SubSeq(stk, 1, Len(stk) - 1)
    /\ afterStart' = FALSE
    /\ doc' = DocEnd
    /\ UNCHANGED <<budget, elem>>

\* malformed input at this point, or the input ends inside an open element
ReadError ==
    /\ doc' = [doc EXCEPT !.failed = TRUE]
    /\ UNCHANGED <<stk, budget, afterStart, elem>>

\* io.EOF: the input ends with no element open
ReadEOF ==
    /\ stk = <<>>
    /\ doc' = [doc EXCEPT !.ended = TRUE]
    /\ UNCHANGED <<stk, budget, afterStart, elem>>

-----------------------------------------------------------------------------
(* parseLoop, the handlers and the consumer.                               *)

ConsumerErrors == {Err("breakErr", 0), Err("otherErr", 0)}

\* the entry point returns res; its deferred Close runs
Return(res) ==
    /\ result' = Returned(api, res)
    /\ src' = DeferredClose(api, src)
    /\ pc' = "done"

\* parseLoop reads a start element and calls the handler with it
LoopStart(t) ==
    /\ pc = "loop"
    /\ ReadStart(t)
    /\ IF t = HandlerTag(Handler(api))
       THEN /\ entry' = HandlerNew(Handler(api))
            /\ base' = Len(stk')
            /\ pc' = "decode"
       ELSE UNCHANGED <<entry, base, pc>>
    /\ UNCHANGED <<api, delivered, result, src>>
    /\ UNCHANGED <<typeVars, concVars>>

\* parseLoop reads a token that is no start element and continues
LoopSkip ==
    /\ pc = "loop"
    /\ \/ \E v \in TextsFor(IF stk = <<>> THEN "" ELSE Last(stk)) : ReadText(v)
       \/ ReadEnd
    /\ UNCHANGED <<api, pc, base, entry, delivered, result, src>>
    /\ UNCHANGED <<typeVars, concVars>>

LoopError ==
    /\ pc = "loop"
    /\ ReadError
    /\ Return(SyntaxError)
    /\ UNCHANGED <<api, base, entry, delivered>>
    /\ UNCHANGED <<typeVars, concVars>>

LoopEOF ==
    /\ pc = "loop"
    /\ ReadEOF
    /\ Return(Nil)
    /\ UNCHANGED <<api, base, entry, delivered>>
    /\ UNCHANGED <<typeVars, concVars>>

\* the path of the innermost open element below the record-start element
Path(s) == SubSeq(s, base + 1, Len(s))

DecodeStart(t) ==
    /\ pc = "decode"
    /\ ReadStart(t)
    /\ entry' = BuildChild(Handler(api), entry, Path(stk'))
    /\ UNCHANGED <<api, pc, base, delivered, result, src>>
    /\ UNCHANGED <<typeVars, concVars>>

DecodeText(v) ==
    /\ pc = "decode"
    /\ ReadText(v)
    /\ entry' = BuildText(Handler(api), entry, Path(stk), v)
    /\ UNCHANGED <<api, pc, base, delivered, result, src>>
    /\ UNCHANGED <<typeVars, concVars>>

\* a builder that would return at the first end element it reads
DecodeEndEarly ==
    /\ pc = "decode"
    /\ ReadEnd
    /\ pc' = "consume"
    /\ UNCHANGED <<api, base, entry, delivered, result, src>>
    /\ UNCHANGED <<typeVars, concVars>>

\* an end element; the one matching the record-start element ends the
\* build, and the handler calls the consumer next
DecodeEnd ==
    /\ pc = "decode"
    /\ ReadEnd
    /\ pc' = IF Len(stk') < base THEN "consume" ELSE "decode"
    /\ UNCHANGED <<api, base, entry, delivered, result, src>>
    /\ UNCHANGED <<typeVars, concVars>>

\* the decoder fails inside the subtree: the record is dropped
DecodeError ==
    /\ pc = "decode"
    /\ ReadError
    /\ IF ClosureReturn(SyntaxError) # Nil
       THEN Return(ClosureReturn(SyntaxError))
       ELSE /\ pc' = "loop"
            /\ UNCHANGED <<result, src>>
    /\ entry' = NoEntry
    /\ UNCHANGED <<api, base, delivered>>
    /\ UNCHANGED <<typeVars, concVars>>

\* the consumer is called with the record and returns ret
Consume(ret) ==
    /\ pc = "consume"
    /\ delivered' = Append(delivered, [at |-> elem.at, ret |-> ret])
    /\ entry' = NoEntry
    /\ IF ClosureReturn(ret) # Nil
       THEN Return(ClosureReturn(ret))
       ELSE /\ pc' = "loop"
            /\ UNCHANGED <<result, src>>
    /\ UNCHANGED <<api, stk, budget, afterStart, base, doc, elem>>
    /\ UNCHANGED <<typeVars, concVars>>

Next ==
    \/ \E ok \in BOOLEAN : OpenFile(ok)
    \/ GetNoResponse
    \/ \E code \in Statuses, gzipped \in BOOLEAN, gzipOK \in BOOLEAN :
          GetResponse(code, gzipped, gzipOK)
    \/ \E t \in Tags : LoopStart(t)
    \/ LoopSkip
    \/ LoopError
    \/ LoopEOF
    \/ \E t \in Tags : DecodeStart(t)
    \/ \E v \in TextsFor(IF stk = <<>> THEN "" ELSE Last(stk)) : DecodeText(v)
    \/ DecodeEnd
    \/ DecodeError
    \/ \E ret \in {Nil} \cup ConsumerErrors : Consume(ret)

Spec == Init /\ [][Next]_vars

-----------------------------------------------------------------------------
(* The record types on their own: either a record instance as a builder   *)
(* leaves it, with any raw date string, and successive calls of its date   *)
(* accessor; or no record, and direct calls of parseDateTime.              *)

EntryInstances == {[newSitemapEntry EXCEPT !.LastModified = v] : v \in DateInputs}

IndexEntryInstances ==
    {[newSitemapIndexEntry EXCEPT !.LastModified = v] : v \in DateInputs}

NewsInstances == {[NewNews EXCEPT !.PublicationDate = v] : v \in DateInputs}

InitTypes ==
    /\ api = "Parse"
    /\ pc = "types"
    /\ stk = <<>>
    /\ budget = 0
    /\ afterStart = FALSE
    /\ base = 0
    /\ entry = NoEntry
    /\ delivered = <<>>
    /\ result = Nil
    /\ src = NoSource
    /\ doc = NoDoc
    /\ elem = NoElem
    /\ \/ rec \in EntryInstances
       \/ rec \in IndexEntryInstances
       \/ rec \in NewsInstances
       \/ rec = NoEntry
    /\ returns = <<>>
    /\ parsed = [called |-> FALSE, value |-> <<>>, t |-> NilPtr, tried |-> <<>>]
    /\ parseCalls = 0
    /\ calls = <<>>
    /\ heap = <<>>

\* one call of the date accessor of rec
Accessor(r) ==
    CASE r.type = "sitemapEntry" -> GetLastModified(r)
      [] r.type = "sitemapIndexEntry" -> IndexGetLastModified(r)
      [] r.type = "News" -> GetPublicationDate(r)

CallAccessor ==
    /\ pc = "types"
    /\ rec.type # "none"
    /\ Len(returns) < MaxCalls
    /\ LET r == Accessor(rec)
       IN  /\ rec' = r.self
           /\ returns' = Append(returns, r.ret)
           /\ parseCalls' = parseCalls + r.calls
    /\ UNCHANGED parsed
    /\ UNCHANGED <<loopVars, concVars>>

CallParseDateTime(v) ==
    /\ pc = "types"
    /\ rec.type = "none"
    /\ LET r == parseDateTime(v)
       IN  parsed' = [called |-> TRUE, value |-> v, t |-> r.t, tried |-> r.tried]
    /\ UNCHANGED <<rec, returns, parseCalls>>
    /\ UNCHANGED <<loopVars, concVars>>

NextTypes ==
    \/ CallAccessor
    \/ \E v \in DateInputs : CallParseDateTime(v)

SpecTypes == InitTypes /\ [][NextTypes]_vars

-----------------------------------------------------------------------------
(* Concurrent calls.  Each call of Parse / ParseIndex has its own reader,  *)
(* its own decoder over it and its own consumer; the records the handlers  *)
(* create with newSitemapEntry / newSitemapIndexEntry live in one heap.    *)
(* A step of a call is one Token call of its decoder with what the handler *)
(* does with the token, or one consumer invocation.                        *)

NumCalls == 2  \* calls running at the same time

Callers == 1..NumCalls

StartTok(t) == [kind |-> "start", val |-> t]

TextTok(v) == [kind |-> "text", val |-> v]

EndTok == [kind |-> "end", val |-> ""]

EOFTok == [kind |-> "eof", val |-> ""]

\* <url><loc>a</loc></url><url><loc>b</loc></url>
TwoUrls ==
    <<StartTok("url"), StartTok("loc"), TextTok("a"), EndTok, EndTok,
      StartTok("url"), StartTok("loc"), TextTok("b"), EndTok, EndTok>>

\* <sitemap><loc>b</loc></sitemap><url><url></url><loc>a</loc></url>
Mixed ==
    <<StartTok("sitemap"), StartTok("loc"), TextTok("b"), EndTok, EndTok,
      StartTok("url"), StartTok("url"), EndTok, StartTok("loc"), TextTok("a"),
      EndTok, EndTok>>

\* <url><loc>b</loc> and the end of the input
Truncated == <<StartTok("url"), StartTok("loc"), TextTok("b"), EndTok>>

\* the calls that are made: the entry point, the document its reader holds,
\* and failAt, the invocation from which its consumer returns breakErr
\* (0: the consumer always returns nil)
ConcInputs ==
    {[api |-> "Parse", tokens |-> TwoUrls, failAt |-> 0],
     [api |-> "Parse", tokens |-> Mixed, failAt |-> 1],
     [api |-> "ParseIndex", tokens |-> Mixed, failAt |-> 0],
     [api |-> "Parse", tokens |-> Truncated, failAt |-> 0]}

\* a pointer that would be shared by every call
AllocShared(h) == 1

\* the address of a new record: &sitemapEntry{...}, &sitemapIndexEntry{}
Alloc(h) == Len(h) + 1

Store(h, a, v) == IF a \in DOMAIN h THEN [h EXCEPT ![a] = v] ELSE Append(h, v)

\* the state of a call when it is made
InitCall(a, toks, f) ==
    [api |-> a, tokens |-> toks, failAt |-> f, pos |-> 0, stk |-> <<>>,
     base |-> 0, pc |-> "loop", entry |-> 0, delivered |-> <<>>, result |-> Nil]

\* the token the decoder of call c returns next
NextToken(c) == IF c.pos < Len(c.tokens) THEN c.tokens[c.pos + 1] ELSE EOFTok

PathFrom(b, s) == SubSeq(s, b + 1, Len(s))

\* parseLoop of call c reads one token; on the start element of a record
\* the handler creates the record
StepLoop(c, h) ==
    LET tok == NextToken(c)
        rd == [c EXCEPT !.pos = @ + 1]
    IN  CASE tok.kind = "eof" ->
               [c |-> [c EXCEPT !.pc = "done",
                                !.result = Returned(c.api, IF c.stk = <<>> THEN Nil
                                                           ELSE SyntaxError)],
                h |-> h]
          [] tok.kind = "start" ->
               IF tok.val = HandlerTag(Handler(c.api))
               THEN LET a == Alloc(h)
                    IN  [c |-> [rd EXCEPT !.stk = Append(@, tok.val),
                                          !.base = Len(c.stk) + 1,
                                          !.entry = a,
                                          !.pc = "decode"],
                         h |-> Store(h, a, HandlerNew(Handler(c.api)))]
               ELSE [c |-> [rd EXCEPT !.stk = Append(@, tok.val)], h |-> h]
          [] tok.kind = "text" -> [c |-> rd, h |-> h]
          [] tok.kind = "end" ->
               [c |-> [rd EXCEPT !.stk = SubSeq(@, 1, Len(@) - 1)], h |-> h]

\* the handler of call c reads one token of the record's subtree
StepDecode(c, h) ==
    LET tok == NextToken(c)
        rd == [c EXCEPT !.pos = @ + 1]
    IN  CASE tok.kind = "eof" ->
               [c |-> [c EXCEPT !.pc = IF ClosureReturn(SyntaxError) # Nil
                                       THEN "done" ELSE "loop",
                                !.entry = 0,
                                !.result = IF ClosureReturn(SyntaxError) # Nil
                                           THEN Returned(c.api,
                                                         ClosureReturn(SyntaxError))
                                           ELSE @],
                h |-> h]
          [] tok.kind = "start" ->
               LET s == Append(c.stk, tok.val)
               IN  [c |-> [rd EXCEPT !.stk = s],
                    h |-> [h EXCEPT ![c.entry] =
                             BuildChild(Handler(c.api), @, PathFrom(c.base, s))]]
          [] tok.kind = "text" ->
               [c |-> rd,
                h |-> [h EXCEPT ![c.entry] =
                         BuildText(Handler(c.api), @, PathFrom(c.base, c.stk),
                                   tok.val)]]
          [] tok.kind = "end" ->
               LET s == SubSeq(c.stk, 1, Len(c.stk) - 1)
               IN  [c |-> [rd EXCEPT !.stk = s,
                                     !.pc = IF Len(s) < c.base THEN "consume"
                                            ELSE "decode"],
                    h |-> h]

\* the handler of call c invokes the consumer of c with the record
StepConsume(c, h) ==
    LET n == Len(c.delivered) + 1
        ret == IF c.failAt = n THEN Err("breakErr", 0) ELSE Nil
    IN  [c |-> [c EXCEPT !.delivered = Append(@, [rec |-> h[c.entry], ret |-> ret]),
                         !.entry = 0,
                         !.pc = IF ClosureReturn(ret) # Nil THEN "done" ELSE "loop",
                         !.result = IF ClosureReturn(ret) # Nil
                                    THEN Returned(c.api, ClosureReturn(ret))
                                    ELSE @],
         h |-> h]

Step(c, h) ==
    CASE c.pc = "loop" -> StepLoop(c, h)
      [] c.pc = "decode" -> StepDecode(c, h)
      [] c.pc = "consume" -> StepConsume(c, h)

InitConc ==
    /\ api = "Parse"
    /\ pc = "calls"
    /\ stk = <<>>
    /\ budget = 0
    /\ afterStart = FALSE
    /\ base = 0
    /\ entry = NoEntry
    /\ delivered = <<>>
    /\ result = Nil
    /\ src = NoSource
    /\ doc = NoDoc
    /\ elem = NoElem
    /\ rec = NoEntry
    /\ returns = <<>>
    /\ parsed = [called |-> FALSE, value |-> <<>>, t |-> NilPtr, tried |-> <<>>]
    /\ parseCalls = 0
    /\ \E in \in [Callers -> ConcInputs] :
          calls = [i \in Callers |-> InitCall(in[i].api, in[i].tokens, in[i].failAt)]
    /\ heap = <<>>

\* call i takes the step s, which is the step its position asks for
CallStep(i, s) ==
    /\ pc = "calls"
    /\ calls' = [calls EXCEPT ![i] = s.c]
    /\ heap' = s.h
    /\ UNCHANGED <<loopVars, typeVars>>

ConcLoop(i) == calls[i].pc = "loop" /\ CallStep(i, StepLoop(calls[i], heap))

ConcDecode(i) == calls[i].pc = "decode" /\ CallStep(i, StepDecode(calls[i], heap))

ConcConsume(i) == calls[i].pc = "consume" /\ CallStep(i, StepConsume(calls[i], heap))

NextConc ==
    \/ \E i \in Callers : ConcLoop(i)
    \/ \E i \in Callers : ConcDecode(i)
    \/ \E i \in Callers : ConcConsume(i)

SpecConc == InitConc /\ [][NextConc]_vars

-----------------------------------------------------------------------------
(* Properties of the decode loop.                                          *)

\* the positions in doc.recs of the elements named tag
ElementsNamed(tag) == {i \in 1..Len(doc.recs) : doc.recs[i].tag = tag}

\* those that lie inside no other element of the same name
OutermostNamed(tag) == {i \in ElementsNamed(tag) : tag \notin doc.recs[i].inside}

\* the consumer was invoked once for each element of want, in document order
DeliveredExactly(want) ==
    /\ Len(delivered) = Cardinality(want)
    /\ \A j \in 1..Len(delivered) : delivered[j].at \in want
    /\ \A j, k \in 1..Len(delivered) : j < k => delivered[j].at < delivered[k].at

\* the call has returned after reading a well-formed document to its end,
\* every consumer invocation having returned nil
ReadThrough ==
    /\ pc = "done"
    /\ doc.ended
    /\ ~doc.failed
    /\ \A j \in 1..Len(delivered) : delivered[j].ret = Nil

\* C1 as stated: after Parse has read a well-formed document with a consumer
\* that always returns nil, the consumer was invoked once per url element of
\* the document, in document order.
C1_OncePerUrlElement ==
    (api \in EntryAPIs /\ ReadThrough) => DeliveredExactly(ElementsNamed("url"))

\* C1 amended: after Parse has read a well-formed document with a consumer
\* that always returns nil, the consumer was invoked once per url element
\* that lies inside no other url element, in document order, whatever other
\* elements surround them.
C1_OncePerOutermostUrl ==
    (api \in EntryAPIs /\ ReadThrough) => DeliveredExactly(OutermostNamed("url"))

\* a document of five tokens with two url elements, both delivered
C1_Witness ==
    /\ api = "Parse"
    /\ ReadThrough
    /\ Len(delivered) = 2
    /\ Len(doc.recs) = 2
    /\ budget = 0

\* C2: a consumer invocation that returned a non-nil error is the last one,
\* and the entry point has returned that very error.
C2_ConsumerErrorStops ==
    \A j \in 1..Len(delivered) :
        delivered[j].ret # Nil =>
            /\ j = Len(delivered)
            /\ pc = "done"
            /\ result = delivered[j].ret

\* the consumer fails on the second record
C2_Witness ==
    /\ pc = "done"
    /\ Len(delivered) = 2
    /\ delivered[1].ret = Nil
    /\ delivered[2].ret = Err("breakErr", 0)
    /\ result = Err("breakErr", 0)

\* C3: once the decoder has failed the entry point has returned a structural
\* failure; the consumer is only ever invoked for elements whose end tag was
\* read, and never for the element that was being decoded at the failure.
C3_NoPartialRecord ==
    /\ doc.failed => (pc = "done" /\ result = SyntaxError)
    /\ \A j \in 1..Len(delivered) : doc.recs[delivered[j].at].closed
    /\ (doc.failed /\ RecordAt(stk) # 0) =>
          \A j \in 1..Len(delivered) : delivered[j].at # elem.at

\* the decoder fails inside the second record, after one child of it was read
C3_Witness ==
    /\ pc = "done"
    /\ doc.failed
    /\ Len(delivered) = 1
    /\ RecordAt(stk) # 0
    /\ Len(elem.kids) = 1
    /\ elem.at = 2

\* C4: Parse and ParseIndex return nil exactly when the document was read to
\* its end without a decoder failure and every consumer invocation returned
\* nil; any other result is the decoder's failure or the error the last
\* consumer invocation returned.
C4_NilIffReadThrough ==
    (pc = "done" /\ api \in {"Parse", "ParseIndex"}) =>
        /\ (result = Nil) <=> ReadThrough
        /\ result # Nil =>
              \/ (doc.failed /\ result = SyntaxError)
              \/ (delivered # <<>> /\ result = Last(delivered).ret)

\* ParseIndex returns nil after delivering two records
C4_Witness ==
    /\ pc = "done"
    /\ api = "ParseIndex"
    /\ result = Nil
    /\ Len(delivered) = 2

\* C5: when a wrapper that obtained a byte source has returned, the file
\* handle or the network body was released exactly once.
C5_SourceReleasedOnce ==
    (pc = "done" /\ src.kind \in {"file", "body", "gzip"}) =>
        /\ api \in FileAPIs => src.fileCloses = 1
        /\ api \in SiteAPIs => src.bodyCloses = 1

-----------------------------------------------------------------------------
(* Properties of the records handed to the consumer, against the children  *)
(* of the element they were built from.                                    *)

KidsNamed(tag) == SelectSeq(elem.kids, LAMBDA k : k.tag = tag)

HasKid(tag) == KidsNamed(tag) # <<>>

\* the text of the last child named tag
KidText(tag) == Last(KidsNamed(tag)).text

\* the value a field takes from the children named tag, absent when there
\* is none
KidValue(tag, absent) ==
    IF ~HasKid(tag) THEN absent
    ELSE IF KidText(tag) = <<>> THEN EmptyValue(<<tag>>)
    ELSE KidText(tag)[1]

Consuming(type) == pc = "consume" /\ entry.type = type

\* C6: a record built from a url element with no changefreq child has change
\* frequency "always", one with no priority child has priority 0.5; when the
\* child holds a text the accessor returns that text's value unchanged.
C6_Defaults ==
    Consuming("sitemapEntry") =>
        /\ ~HasKid("changefreq") => GetChangeFrequency(entry) = "always"
        /\ ~HasKid("priority") => GetPriority(entry) = 5
        /\ (HasKid("changefreq") /\ KidText("changefreq") # <<>>) =>
              GetChangeFrequency(entry) = KidText("changefreq")[1]
        /\ (HasKid("priority") /\ KidText("priority") # <<>>) =>
              GetPriority(entry) = KidText("priority")[1]

\* a url element with a priority of 2.5 and no changefreq
C6_Witness ==
    /\ Consuming("sitemapEntry")
    /\ ~HasKid("changefreq")
    /\ HasKid("priority")
    /\ GetPriority(entry) = 25
    /\ GetChangeFrequency(entry) = "always"

ShortDateTime ==
    [year |-> 2015, month |-> 5, day |-> 7, hour |-> 0, min |-> 0, sec |-> 0,
     offset |-> 0]

\* the index record carries its element's location and last-modified
IndexRecordOfElement ==
    Consuming("sitemapIndexEntry") =>
        /\ DOMAIN entry = {"type", "Location", "LastModified", "ParsedLastModified"}
        /\ GetLocation(entry) = KidValue("loc", "")
        /\ ~HasKid("lastmod") => IndexGetLastModified(entry).ret = NilPtr
        /\ (HasKid("lastmod") /\ KidText("lastmod") = <<Date_2015_05_07>>) =>
              IndexGetLastModified(entry).ret = Ptr(ShortDateTime)
        /\ (HasKid("lastmod") /\ KidText("lastmod") = <<Date_NotADate>>) =>
              IndexGetLastModified(entry).ret = NilPtr

\* C7 as stated: after ParseIndex has read a well-formed document the
\* consumer was invoked once per sitemap element, in document order, and
\* nil is returned; each record carries its element's location and optional
\* last-modified, whatever other children the element has.
C7_OncePerSitemapElement ==
    /\ (api \in IndexAPIs /\ ReadThrough) =>
          (DeliveredExactly(ElementsNamed("sitemap")) /\ result = Nil)
    /\ IndexRecordOfElement

\* C7 amended: the same, for the sitemap elements that lie inside no other
\* sitemap element.
C7_OncePerOutermostSitemap ==
    /\ (api \in IndexAPIs /\ ReadThrough) =>
          (DeliveredExactly(OutermostNamed("sitemap")) /\ result = Nil)
    /\ IndexRecordOfElement

\* a sitemap element with a loc and a changefreq child, read without error
C7_Witness ==
    /\ api = "ParseIndex"
    /\ ReadThrough
    /\ result = Nil
    /\ Len(delivered) = 1
    /\ HasKid("changefreq")
    /\ HasKid("loc")
    /\ KidText("loc") = <<"a">>

\* the location the image child k of the element gives its Image
ImageLocOf(k) ==
    IF k.locs = <<>> \/ Last(k.locs) = <<>> THEN "" ELSE Last(k.locs)[1]

\* C8: the image list of a record has one Image per image child of its url
\* element, in the order of the children, each with that child's location.
C8_ImagesInOrder ==
    Consuming("sitemapEntry") =>
        LET imgs == KidsNamed("image")
        IN  /\ Len(GetImages(entry)) = Len(imgs)
            /\ \A i \in 1..Len(imgs) :
                  GetImages(entry)[i].ImageLocation = ImageLocOf(imgs[i])

\* two image children, the first with a location and the second without
C8_Witness ==
    /\ Consuming("sitemapEntry")
    /\ Len(GetImages(entry)) = 2
    /\ GetImages(entry)[1].ImageLocation = "a"
    /\ GetImages(entry)[2].ImageLocation = ""

-----------------------------------------------------------------------------
(* Properties of the date parser and of the date accessors.                *)

LayoutOrder == <<"RFC3339", "MinuteZone", "Short">>

\* the position in LayoutOrder of the first layout value matches, 0 if none
FirstMatch(value) ==
    IF \E i \in 1..3 : Matches(LayoutOrder[i], value)
    THEN CHOOSE i \in 1..3 :
            /\ Matches(LayoutOrder[i], value)
            /\ \A j \in 1..(i - 1) : ~Matches(LayoutOrder[j], value)
    ELSE 0

\* C9: parseDateTime of the empty string is absent with no layout tried;
\* otherwise the layouts are tried in the order full date-time, date-time
\* to the minute, date only, up to the first that matches, whose time is
\* the result; the result is absent when none matches.
C9_FirstLayoutWins ==
    parsed.called =>
        LET m == FirstMatch(parsed.value)
        IN  IF parsed.value = <<>>
            THEN parsed.t = NilPtr /\ parsed.tried = <<>>
            ELSE /\ parsed.tried = SubSeq(LayoutOrder, 1, IF m = 0 THEN 3 ELSE m)
                 /\ parsed.t = IF m = 0 THEN NilPtr
                               ELSE Ptr(TimeOf(LayoutOrder[m], parsed.value))
                 /\ parsed.value = Date_2015_05_07 => parsed.t = Ptr(ShortDateTime)

\* a string that only the second layout matches
C9_Witness ==
    /\ parsed.called
    /\ parsed.tried = <<"RFC3339", "MinuteZone">>
    /\ parsed.t # NilPtr

CacheField(r) ==
    IF r.type = "News" THEN "ParsedPublicationDate" ELSE "ParsedLastModified"

\* the record without its cached date
Raw(r) == [r EXCEPT ![CacheField(r)] = NilPtr]

\* C10: every call of a record's date accessor returns what the first call
\* returned, leaves every field but the cached date as it was, and reads
\* nothing from the token stream.
C10_AccessorStable ==
    [][Len(returns') > Len(returns) =>
          /\ \A i \in 1..Len(returns') : returns'[i] = returns'[1]
          /\ Raw(rec') = Raw(rec)
          /\ UNCHANGED <<stk, budget, afterStart>>]_vars

\* three calls on an entry whose date parses
C10_Witness ==
    /\ rec.type = "sitemapEntry"
    /\ Len(returns) = 3
    /\ returns[1] # NilPtr
    /\ returns[3] = returns[1]

-----------------------------------------------------------------------------
(* Properties of the convenience wrappers and of get.                      *)

\* the errors a wrapper can meet while it obtains its byte source
RetrievalErrors ==
    {Err("openError", 0), Err("requestError", 0), Err("gzipError", 0)}
        \cup {Err("statusError", c) : c \in Statuses}

\* the wrapper has returned without a byte source
RetrievalFailed == pc = "done" /\ src.kind = "none"

\* C11: a wrapper that has returned without a byte source returns the error
\* of the failed retrieval as it is (the open error of a file; for a site
\* the request error when no response came, the status error with the
\* status of a rejected response, else the gzip error); the decode loop has
\* read no token and the consumer was never invoked.  A retrieval error is
\* returned on no other path.
C11_RetrievalErrorReturned ==
    /\ RetrievalFailed =>
          /\ api \in FileAPIs => result = Err("openError", 0)
          /\ (api \in SiteAPIs /\ src.bodies = 0) => result = Err("requestError", 0)
          /\ (api \in SiteAPIs /\ src.bodies = 1) =>
                result = IF src.status >= 400
                         THEN Err("statusError", src.status)
                         ELSE Err("gzipError", 0)
          /\ delivered = <<>>
          /\ doc = NoDoc
          /\ stk = <<>> /\ budget = WrapperTokens /\ entry = NoEntry
    /\ result \in RetrievalErrors => RetrievalFailed

\* ParseIndexFromSite returns the error of gzip.NewReader
C11_Witness ==
    /\ api = "ParseIndexFromSite"
    /\ RetrievalFailed
    /\ src.bodies = 1
    /\ src.status = 200
    /\ result = Err("gzipError", 0)
    /\ delivered = <<>>

\* the success statuses of HTTP
SuccessStatuses == 200..299

\* C12 as stated: a response whose status is no success status makes the
\* wrapper return the status error carrying that status, and the decode
\* loop is given a byte source only under a success status.
C12_NonSuccessStatusFails ==
    (api \in SiteAPIs /\ src.bodies = 1) =>
        /\ src.status \notin SuccessStatuses =>
              (pc = "done" /\ result = Err("statusError", src.status))
        /\ src.kind \in {"body", "gzip"} => src.status \in SuccessStatuses

-----------------------------------------------------------------------------
(* Further properties of the decode loop and of the records.               *)

\* C13 as stated: the record the consumer is invoked with has a location
\* that is not the empty string.
C13_LocationNonEmpty ==
    pc = "consume" => GetLocation(entry) # ""

\* what call c delivers and returns when it runs with no other call
RECURSIVE RunFrom(_, _)
RunFrom(c, h) ==
    IF c.pc = "done" THEN c
    ELSE LET s == Step(c, h) IN RunFrom(s.c, s.h)

RunAlone(c) == RunFrom(InitCall(c.api, c.tokens, c.failAt), <<>>)

\* C14: under every interleaving of the steps of concurrent calls, each on
\* its own stream, a call that has returned has invoked its consumer with
\* the sequence of records, and has returned the result, of the same call
\* run alone.
C14_CallsDoNotInteract ==
    \A i \in DOMAIN calls :
        calls[i].pc = "done" =>
            /\ calls[i].delivered = RunAlone(calls[i]).delivered
            /\ calls[i].result = RunAlone(calls[i]).result

\* two calls of Parse on documents with different records have both
\* returned, their records allocated in turns
C14_Witness ==
    /\ DOMAIN calls = Callers
    /\ \A i \in Callers : calls[i].pc = "done" /\ calls[i].api = "Parse"
    /\ calls[1].tokens = TwoUrls /\ Len(calls[1].delivered) = 2
    /\ calls[1].result = Nil
    /\ calls[2].tokens = Mixed /\ Len(calls[2].delivered) = 1
    /\ calls[2].result = Err("breakErr", 0)
    /\ heap[1].Location = "a" /\ heap[2].Location = "a" /\ heap[3].Location = "b"

\* a consumer invocation has returned an error or the decoder has failed
Stopped == doc.failed \/ (delivered # <<>> /\ Last(delivered).ret # Nil)

\* C15: the step in which the consumer returns an error or the decoder fails
\* makes the entry point return with the decoder where that step found it
\* (same open elements, nothing more read); from then on no token is read
\* and the consumer is not invoked.
C15_NothingAfterStop ==
    [][/\ (~Stopped /\ Stopped') =>
             (pc' = "done" /\ stk' = stk /\ budget' = budget)
       /\ Stopped =>
             (pc = "done" /\ UNCHANGED <<stk, budget, afterStart, doc, delivered>>)]_vars

\* the consumer stopped the call inside an open element, with input left
C15_Witness ==
    /\ pc = "done"
    /\ delivered # <<>>
    /\ Last(delivered).ret = Err("otherErr", 0)
    /\ stk # <<>>
    /\ budget > 0

\* the end tag of the record element the builder was called for was read
BuiltElementClosed == doc.recs[elem.at].closed

\* C16: while the builder runs, the end tag matching its record-start
\* element is unread; the builder returns in the very step that reads this
\* end tag, whatever children the element has, with every element it opened
\* closed again; between the builder's return and the end of the consumer
\* invocation no token is read.
C16_BuilderEndsAtEndTag ==
    /\ [](pc = "decode" => (~BuiltElementClosed /\ Len(stk) >= base))
    /\ [](pc = "consume" => (BuiltElementClosed /\ Len(stk) = base - 1))
    /\ [][/\ (pc = "decode" /\ pc' = "consume") =>
                (~BuiltElementClosed /\ doc'.recs[elem.at].closed
                    /\ elem'.at = elem.at /\ budget' = budget)
          /\ (pc = "decode" /\ doc'.recs[elem.at].closed) => pc' = "consume"
          /\ pc = "consume" => UNCHANGED <<stk, budget, afterStart, doc>>]_vars

\* the builder has returned from a url element that holds a url element and
\* no child with a name it knows
C16_Witness ==
    /\ api = "Parse"
    /\ pc = "consume"
    /\ BuiltElementClosed
    /\ \E i \in (elem.at + 1)..Len(doc.recs) :
          doc.recs[i].tag = "url" /\ "url" \in doc.recs[i].inside
    /\ budget = MaxTokens - 3
    /\ elem.kids = <<>>

\* the Image of each image child of the element, in order
ImagesOfElement ==
    [i \in 1..Len(KidsNamed("image")) |->
        [ImageLocation |-> ImageLocOf(KidsNamed("image")[i]), ImageTitle |-> ""]]

\* the record that the children of the element alone determine
RecordOfElement(h) ==
    IF h = "entryParser"
    THEN [type |-> "sitemapEntry",
          Location |-> KidValue("loc", ""),
          LastModified |-> KidValue("lastmod", <<>>),
          ParsedLastModified |-> NilPtr,
          ChangeFrequency |-> KidValue("changefreq", "always"),
          Priority |-> KidValue("priority", 5),
          Images |-> ImagesOfElement,
          News |-> IF HasKid("news")
                   THEN <<[type |-> "News", Name |-> "", Language |-> "",
                           PublicationDate |-> <<>>, ParsedPublicationDate |-> <<>>,
                           Title |-> "", Keywords |-> ""]>>
                   ELSE <<>>]
    ELSE [type |-> "sitemapIndexEntry",
          Location |-> KidValue("loc", ""),
          LastModified |-> KidValue("lastmod", <<>>),
          ParsedLastModified |-> NilPtr]

\* C17: the record the consumer is invoked with is the one its own element's
\* children determine, with no date cached, whatever records came before;
\* the build starts from a record holding only the defaults; the engine
\* holds a record only while it builds it or hands it over, and none once
\* the consumer has been invoked with it.
C17_FreshRecordPerElement ==
    /\ [](pc = "consume" => entry = RecordOfElement(Handler(api)))
    /\ [](pc \notin {"decode", "consume"} <=> entry = NoEntry)
    /\ [][/\ (pc = "loop" /\ pc' = "decode") =>
                (elem'.kids = <<>> /\ entry' = RecordOfElement(Handler(api))')
          /\ pc = "consume" => entry' = NoEntry]_vars

\* the second record of a document is handed over, built from an element
\* with no children after an element with children
C17_Witness ==
    /\ pc = "consume"
    /\ Len(delivered) = 1
    /\ delivered[1].at = 1
    /\ elem.at = 2
    /\ elem.kids = <<>>
    /\ budget = 0
    /\ entry.Location = ""

-----------------------------------------------------------------------------
(* Further properties of the date accessors and of get.                    *)

\* C18 as stated: over any sequence of calls of the date accessor of one
\* record, parseDateTime is called at most once, whatever the raw string.
C18_ParsedAtMostOnce ==
    rec.type # "none" => parseCalls <= 1

\* C19 as stated: when get has received a response and returned an error,
\* the body of the response was closed.
C19_BodyClosedOnGetError ==
    (api \in SiteAPIs /\ RetrievalFailed /\ src.bodies = 1) => src.bodyCloses = 1

-----------------------------------------------------------------------------
(* The two parse modes.                                                    *)

\* the name of the elements an entry point hands to its consumer
ModeTag == IF api \in EntryAPIs THEN "url" ELSE "sitemap"

\* C20: Parse invokes its consumer only for url elements, with url records,
\* and ParseIndex only for sitemap elements, with index records; a call
\* that has read a well-formed document holding no element of its own
\* mode's name has not invoked the consumer and has returned nil.
C20_ModesDisjoint ==
    /\ \A j \in 1..Len(delivered) : doc.recs[delivered[j].at].tag = ModeTag
    /\ pc = "consume" =>
          /\ doc.recs[elem.at].tag = ModeTag
          /\ entry.type = IF api \in EntryAPIs THEN "sitemapEntry"
                          ELSE "sitemapIndexEntry"
    /\ (pc = "done" /\ doc.ended /\ ~doc.failed /\ ElementsNamed(ModeTag) = {}) =>
          (delivered = <<>> /\ result = Nil)

\* ParseIndex has read a document whose records are two url elements
C20_Witness ==
    /\ api = "ParseIndex"
    /\ pc = "done"
    /\ doc.ended
    /\ Cardinality(ElementsNamed("url")) = 2
    /\ ElementsNamed("sitemap") = {}
    /\ delivered = <<>>
    /\ result = Nil

====
